---------------------------- MODULE Spec2Model ----------------------------
(***************************************************************************)
(* Model of src/bot.py: a Telegram support bot built on python-telegram-bot *)
(* (Application + ConversationHandler).                                     *)
(*                                                                          *)
(* Two specifications carry the model.                                           *)
(*   Spec        the whole program: every inbound update goes through      *)
(*               Application.process_update over the handlers registered   *)
(*               by main(), the conversation handler choosing its callback  *)
(*               as ConversationHandler.check_update does for the handler   *)
(*               built by build_conv_handler().                             *)
(*   HandlerSpec the callbacks of bot.py applied one by one to an update in *)
(*               the stage under which build_conv_handler() lists them,     *)
(*               followed by the conversation handler's state update;      *)
(*               commands still go through process_update.  Under Spec the  *)
(*               entry point takes every text, so the stages ISSUE and      *)
(*               ASK_ADDRESS exist only here.                               *)
(* Further specifications, each next to the properties it serves:          *)
(*   QueueSpec    the update queue and the process_update calls in flight   *)
(*   StartupSpec  start-up with any value of TELEGRAM_TOKEN                 *)
(*   StageSpec    process_update in every stage of the handler table        *)
(*   SameUserSpec, TwoUserSpec  several conversations side by side          *)
(*   RelaySpec    manual mode, written from the specification              *)
(* Texts are sequences of one-character strings, so that strip(), lower(),  *)
(* startswith(), len() and the substring test are computed, not assumed.    *)
(***************************************************************************)
EXTENDS Integers, Sequences, FiniteSets, TLC

VARIABLES
    TRIGGER_WORDS,  \* bot.py:31, fixed at start-up
    conv,           \* ConversationHandler._conversations: (chat, user) -> stage
    user_data,      \* context.user_data["issue"], one per user
    last,           \* the update handled last and what its handling did
    scenario,       \* how many steps of the private-flow scenario have been played
    TOKEN,          \* bot.py:28, os.environ.get("TELEGRAM_TOKEN")
    proc,           \* where the process is: "starting", "exited" or "polling"
    update_queue,   \* Application.update_queue: updates fetched and not yet processed
    running,        \* the process_update calls that have begun and not returned
    next_id,        \* the update_id the platform gives to the next update
    completed,      \* the update_id of the update whose handling returned last
    manualMode      \* per user: the conversation is handed to the operator

\* the variables of the updates' path through the application, and the rest
appVars == <<TOKEN, proc, update_queue, running, next_id, completed, manualMode>>

vars == <<TRIGGER_WORDS, conv, user_data, last, scenario,
          TOKEN, proc, update_queue, running, next_id, completed, manualMode>>

(***************************************************************************)
(* Bounds of the model.                                                     *)
(***************************************************************************)
\* address-like texts are drawn with lengths MinAddrLen-AddrSlack .. MinAddrLen+AddrSlack
AddrSlack == 1
\* an outbound call of a handler may fail: the FailAt-th call of the handler
\* raises, for FailAt in 1..MaxFailAt; 0 means that every call succeeds
MaxFailAt == 2

(***************************************************************************)
(* Characters and Python's str operations.                                  *)
(***************************************************************************)
UPPER == <<"A","B","C","D","E","F","G","H","I","J","K","L","M",
           "N","O","P","Q","R","S","T","U","V","W","X","Y","Z">>
LOWER == <<"a","b","c","d","e","f","g","h","i","j","k","l","m",
           "n","o","p","q","r","s","t","u","v","w","x","y","z">>

\* str.lower() on one character
LowerTable ==
    [ch \in {UPPER[i] : i \in 1..Len(UPPER)} |->
        LOWER[CHOOSE i \in 1..Len(UPPER) : UPPER[i] = ch]]

LowerChar(ch) == IF ch \in DOMAIN LowerTable THEN LowerTable[ch] ELSE ch

\* str.lower()
lower(t) == [i \in 1..Len(t) |-> LowerChar(t[i])]

\* the characters str.strip() removes
IsSpace(ch) == ch \in {" ", "\t", "\n"}

RECURSIVE lstrip(_)
lstrip(t) == IF t # <<>> /\ IsSpace(Head(t)) THEN lstrip(Tail(t)) ELSE t

RECURSIVE rstrip(_)
rstrip(t) ==
    IF t # <<>> /\ IsSpace(t[Len(t)]) THEN rstrip(SubSeq(t, 1, Len(t) - 1)) ELSE t

\* str.strip()
strip(t) == rstrip(lstrip(t))

\* str.startswith(p)
startswith(t, p) == Len(t) >= Len(p) /\ SubSeq(t, 1, Len(p)) = p

\* the Python test `w in t` on strings
contains(w, t) ==
    \E i \in 0..(Len(t) - Len(w)) : SubSeq(t, i + 1, i + Len(w)) = w

\* str.split(sep) for a one-character separator
RECURSIVE split(_, _)
split(t, sep) ==
    IF \E i \in 1..Len(t) : t[i] = sep
    THEN LET i == CHOOSE j \in 1..Len(t) :
                      t[j] = sep /\ \A k \in 1..(j - 1) : t[k] # sep
         IN  <<SubSeq(t, 1, i - 1)>> \o split(SubSeq(t, i + 1, Len(t)), sep)
    ELSE <<t>>

RECURSIVE SelectNonEmptyStripLower(_)
SelectNonEmptyStripLower(items) ==
    IF items = <<>> THEN <<>>
    ELSE (IF strip(Head(items)) # <<>> THEN <<lower(strip(Head(items)))>> ELSE <<>>)
         \o SelectNonEmptyStripLower(Tail(items))

\* bot.py:31  [t.strip().lower() for t in TRIGGERS.split(",") if t.strip()]
ParseTriggers(TRIGGERS) == SelectNonEmptyStripLower(split(TRIGGERS, ","))

\* n copies of the character ch
RECURSIVE Rep(_, _)
Rep(ch, n) == IF n <= 0 THEN <<>> ELSE <<ch>> \o Rep(ch, n - 1)


(***************************************************************************)
(* Program constants.                                                       *)
(***************************************************************************)
\* bot.py:38  LANGUAGE, ISSUE, ASK_ADDRESS = range(3)
LANGUAGE == "LANGUAGE"
ISSUE == "ISSUE"
ASK_ADDRESS == "ASK_ADDRESS"
\* ConversationHandler.END, returned at bot.py:111, 150, 155
END == "END"
\* no entry for the key in ConversationHandler._conversations: the stage of a
\* user who has not started a conversation, or whose conversation has ended
NoConversation == "None"
\* a callback that returns nothing (start_command, help_command, handle_group_message)
ReturnsNone == "returns None"
\* a callback that ends with an exception
Raised == "raised"
\* bot.py:117  len(text) >= 40
MinAddrLen == 40

Users == {"u1", "u2"}
\* a group chat; the private chat of user u has chat id u, as on Telegram
Group == "grp"
Chats == Users \cup {Group}
\* ConversationHandler's key with per_chat and per_user (its defaults): (chat id, user id)
Keys == {k \in Chats \X Users : k[1] = k[2] \/ k[1] = Group}

S_0x == <<"0","x">>
S_yes == <<"y","e","s">>
S_y == <<"y">>
S_en == <<"e","n">>
S_english == <<"e","n","g","l","i","s","h">>
S_swapping == <<"s","w","a","p","p","i","n","g">>
S_staking == <<"s","t","a","k","i","n","g">>
S_site == <<"s","i","t","e">>
S_other == <<"o","t","h","e","r">>
S_start == <<"s","t","a","r","t">>
S_help == <<"h","e","l","p">>
S_cancel == <<"c","a","n","c","e","l">>
S_wallet == <<"w","a","l","l","e","t">>
\* user_data has no "issue" key; bot.py:130 reads it with the default "issue"
S_issue == <<"i","s","s","u","e">>
S_token == <<"t", "o", "k">>

\* bot.py:40-47  the callback_data of the four buttons
issues_keyboard == <<S_swapping, S_staking, S_site, S_other>>

(***************************************************************************)
(* Updates.  kind "message" is Update.message, kind "callback_query" is     *)
(* Update.callback_query (Update.message is then None).                     *)
(***************************************************************************)
MessageUpdate(c, u, bot, hasText, t) ==
    [kind |-> "message", chat |-> c, user |-> u, is_bot |-> bot,
     has_text |-> hasText, text |-> t, data |-> <<>>]

CallbackUpdate(c, u, d) ==
    [kind |-> "callback_query", chat |-> c, user |-> u, is_bot |-> FALSE,
     has_text |-> FALSE, text |-> <<>>, data |-> d]

NoUpdate ==
    [kind |-> "none", chat |-> Group, user |-> "u1", is_bot |-> FALSE,
     has_text |-> FALSE, text |-> <<>>, data |-> <<>>]

\* Telegram marks a text starting with "/" and a command character as a
\* bot_command entity at offset 0; filters.COMMAND tests for that entity
IsCommandChar(ch) ==
    \/ \E i \in 1..Len(LOWER) : LOWER[i] = ch \/ UPPER[i] = ch
    \/ ch \in {"0","1","2","3","4","5","6","7","8","9","_"}

IsCommand(upd) ==
    /\ upd.kind = "message" /\ upd.has_text
    /\ Len(upd.text) >= 2 /\ upd.text[1] = "/" /\ IsCommandChar(upd.text[2])

\* the command's name: the characters after "/" up to the entity's end
RECURSIVE TakeCommandChars(_)
TakeCommandChars(t) ==
    IF t # <<>> /\ IsCommandChar(Head(t))
    THEN <<Head(t)>> \o TakeCommandChars(Tail(t))
    ELSE <<>>

\* CommandHandler(name).check_update: the command is compared lower-cased
MatchesCommand(upd, name) ==
    IsCommand(upd) /\ lower(TakeCommandChars(Tail(upd.text))) = name

\* MessageHandler(filters.TEXT & ~filters.COMMAND, ...).check_update
\* bot.py:188, 190, 193, 195, 216
MatchesTextNotCommand(upd) ==
    upd.kind = "message" /\ upd.has_text /\ upd.text # <<>> /\ ~IsCommand(upd)

\* CallbackQueryHandler(issue_selected).check_update, bot.py:192 (no pattern)
MatchesCallbackQuery(upd) == upd.kind = "callback_query"

(***************************************************************************)
(* Outbound calls.  A callback's outcome is                                 *)
(*   ret      the value it returns, or Raised                               *)
(*   out      the outbound calls that succeeded, in order                   *)
(*   attempts the number of outbound calls made, the failing one included   *)
(*   issue    user_data["issue"] after the callback                         *)
(***************************************************************************)
Msg(to, tag, arg) == [to |-> to, tag |-> tag, arg |-> arg]

\* callback_query.answer() is an outbound call but no message to the user
IsMessage(m) == m.tag # "answerCallbackQuery"

\* `calls` made in order against a platform that rejects the failAt-th call
\* of this callback (0: none); the rejected call raises out of the callback
Outcome(calls, failAt, ret, issue) ==
    LET fails == failAt \in 1..Len(calls)
    IN  [ret      |-> IF fails THEN Raised ELSE ret,
         out      |-> IF fails THEN SubSeq(calls, 1, failAt - 1) ELSE calls,
         attempts |-> IF fails THEN failAt ELSE Len(calls),
         issue    |-> issue]

(***************************************************************************)
(* The callbacks of bot.py.  Each takes the update, the user's recorded     *)
(* issue and the platform's failure point, and gives its outcome.          *)
(* update.message.reply_text replies in the update's chat.                  *)
(***************************************************************************)
\* start_command with a reset of the user's data added
start_command_ResetsUserData(upd, issue, failAt) ==
    Outcome(<<Msg(upd.chat, "welcome", <<>>)>>, failAt, ReturnsNone, <<"<unset>">>)

\* bot.py:50-54
start_command(upd, issue, failAt) ==
    Outcome(<<Msg(upd.chat, "welcome", <<>>)>>, failAt, ReturnsNone, issue)

\* bot.py:57-61
help_command(upd, issue, failAt) ==
    Outcome(<<Msg(upd.chat, "help_link", <<>>)>>, failAt, ReturnsNone, issue)

\* bot.py:64-70
support_start_dm(upd, issue, failAt) ==
    IF upd.kind # "message"
    THEN Outcome(<<>>, failAt, Raised, issue)     \* update.message is None
    ELSE Outcome(<<Msg(upd.chat, "language_question", <<>>)>>, failAt, LANGUAGE, issue)

\* bot.py:73-83
language_received(upd, issue, failAt) ==
    LET text == lower(strip(upd.text))
        first == IF text \in {S_yes, S_y, S_en, S_english}
                 THEN Msg(upd.chat, "continue_in_english", <<>>)
                 ELSE Msg(upd.chat, "language_noted", text)
    IN  Outcome(<<first, Msg(upd.chat, "choose_issue_menu", <<>>)>>,
                failAt, ISSUE, issue)

\* bot.py:87-92  the selection, and the outbound call made to read it
SelectionData(upd) ==
    IF upd.kind = "callback_query" THEN upd.data ELSE lower(strip(upd.text))

\* bot.py:86-111
issue_selected(upd, issue, failAt) ==
    LET data == SelectionData(upd)
        answer == Msg(upd.chat, "answerCallbackQuery", <<>>)
        reply == IF data \in {S_swapping, S_staking}
                 THEN Msg(upd.chat, "address_prompt_with_key_warning", <<>>)
                 ELSE Msg(upd.chat, "generic_troubleshooting", data)
        ret == IF data \in {S_swapping, S_staking} THEN ASK_ADDRESS ELSE END
    IN  IF upd.kind = "callback_query"
        THEN IF failAt = 1
             THEN Outcome(<<answer>>, failAt, Raised, issue)
             \* bot.py:94 records the issue; bot.py:96/103 then use
             \* update.message, which is None for a callback query
             ELSE Outcome(<<answer>>, 0, Raised, data)
        ELSE Outcome(<<reply>>, failAt, ret, data)

\* the address check with > in place of >=
ValidAddress_OffByOne(text) == startswith(text, S_0x) /\ Len(text) > MinAddrLen

\* bot.py:117  the address check, on the stripped text
ValidAddress(text) == startswith(text, S_0x) /\ Len(text) >= MinAddrLen

\* bot.py:130-143
Advice(issue) ==
    IF issue = S_swapping THEN "advice_swapping"
    ELSE IF issue = S_staking THEN "advice_staking"
    ELSE "advice_generic"

\* bot.py:114-150
address_received(upd, issue, failAt) ==
    LET text == strip(upd.text)
    IN  IF ~ValidAddress(text)
        THEN Outcome(<<Msg(upd.chat, "address_reprompt", <<>>)>>,
                     failAt, ASK_ADDRESS, issue)
        ELSE Outcome(<<Msg(upd.chat, "explorer_link", text),
                       Msg(upd.chat, Advice(issue), <<>>)>>,
                     failAt, END, issue)

\* bot.py:153-155
cancel(upd, issue, failAt) ==
    Outcome(<<Msg(upd.chat, "session_closed", <<>>)>>, failAt, END, issue)

\* bot.py:168-184  the loop over TRIGGER_WORDS: the first word found in the
\* text sends one private message (a rejected send is caught and logged) and
\* the loop is left
RECURSIVE ScanTriggers(_, _, _, _)
ScanTriggers(words, text, upd, failAt) ==
    IF words = <<>> THEN [out |-> <<>>, attempts |-> 0]
    ELSE IF contains(Head(words), text)
         THEN [out      |-> IF failAt = 1 THEN <<>>
                            ELSE <<Msg(upd.user, "private_invitation", <<>>)>>,
               attempts |-> 1]
         ELSE ScanTriggers(Tail(words), text, upd, failAt)

\* handle_group_message without the lower() of bot.py:167
handle_group_message_CaseSensitive(upd, issue, failAt, words) ==
    IF upd.kind # "message" \/ ~upd.has_text \/ upd.is_bot
    THEN [ret |-> ReturnsNone, out |-> <<>>, attempts |-> 0, issue |-> issue]
    ELSE LET scan == ScanTriggers(words, upd.text, upd, failAt)
         IN  [ret |-> ReturnsNone, out |-> scan.out,
              attempts |-> scan.attempts, issue |-> issue]

\* handle_group_message without the try/except of bot.py:173-183
handle_group_message_Uncaught(upd, issue, failAt, words) ==
    IF upd.kind # "message" \/ ~upd.has_text \/ upd.is_bot
    THEN [ret |-> ReturnsNone, out |-> <<>>, attempts |-> 0, issue |-> issue]
    ELSE LET scan == ScanTriggers(words, lower(upd.text), upd, failAt)
         IN  [ret |-> IF scan.attempts > Len(scan.out) THEN Raised ELSE ReturnsNone,
              out |-> scan.out, attempts |-> scan.attempts, issue |-> issue]

\* bot.py:158-184
handle_group_message(upd, issue, failAt, words) ==
    IF upd.kind # "message" \/ ~upd.has_text
    THEN [ret |-> ReturnsNone, out |-> <<>>, attempts |-> 0, issue |-> issue]
    ELSE IF upd.is_bot
    THEN [ret |-> ReturnsNone, out |-> <<>>, attempts |-> 0, issue |-> issue]
    ELSE LET scan == ScanTriggers(words, lower(upd.text), upd, failAt)
         IN  [ret |-> ReturnsNone, out |-> scan.out,
              attempts |-> scan.attempts, issue |-> issue]

\* the callback registered under a name
RunCallback(name, upd, issue, failAt, words) ==
    CASE name = "start_command" -> start_command(upd, issue, failAt)
      [] name = "help_command" -> help_command(upd, issue, failAt)
      [] name = "support_start_dm" -> support_start_dm(upd, issue, failAt)
      [] name = "language_received" -> language_received(upd, issue, failAt)
      [] name = "issue_selected" -> issue_selected(upd, issue, failAt)
      [] name = "address_received" -> address_received(upd, issue, failAt)
      [] name = "cancel" -> cancel(upd, issue, failAt)
      [] name = "handle_group_message" ->
             handle_group_message(upd, issue, failAt, words)
      [] OTHER -> [ret |-> ReturnsNone, out |-> <<>>, attempts |-> 0, issue |-> issue]

(***************************************************************************)
(* ConversationHandler as configured by build_conv_handler, bot.py:186-200. *)
(***************************************************************************)
NoHandler == "no handler"

\* bot.py:198
allow_reentry == TRUE

\* an entry point with filters.TEXT alone: commands start a conversation too
EntryPoint_CommandsToo(upd) ==
    IF upd.kind = "message" /\ upd.has_text THEN "support_start_dm" ELSE NoHandler

\* bot.py:188  entry_points
EntryPoint(upd) ==
    IF MatchesTextNotCommand(upd) THEN "support_start_dm" ELSE NoHandler

\* bot.py:189-196  states: the first handler of the stage's list that matches
StateHandler(state, upd) ==
    CASE state = LANGUAGE /\ MatchesTextNotCommand(upd) -> "language_received"
      [] state = ISSUE /\ MatchesCallbackQuery(upd) -> "issue_selected"
      [] state = ISSUE /\ MatchesTextNotCommand(upd) -> "issue_selected"
      [] state = ASK_ADDRESS /\ MatchesTextNotCommand(upd) -> "address_received"
      [] OTHER -> NoHandler

\* bot.py:197  fallbacks
Fallback(upd) == IF MatchesCommand(upd, S_cancel) THEN "cancel" ELSE NoHandler

\* ConversationHandler.check_update: the entry points are searched first when
\* there is no conversation or allow_reentry is set; only when none matches
\* are the stage's handlers searched, and then the fallbacks
ConvCheckUpdate(state, upd) ==
    LET entry == IF state = NoConversation \/ allow_reentry
                 THEN EntryPoint(upd) ELSE NoHandler
    IN  IF entry # NoHandler THEN entry
        ELSE IF state = NoConversation THEN NoHandler
        ELSE IF StateHandler(state, upd) # NoHandler THEN StateHandler(state, upd)
        ELSE Fallback(upd)

\* an _update_state that, on END, drops every conversation and not only the
\* one of the key
UpdateState_EndDropsAll(cv, key, ret) ==
    IF ret = END THEN [k \in DOMAIN cv |-> NoConversation]
    ELSE IF ret \in {ReturnsNone, Raised} THEN cv
    ELSE [cv EXCEPT ![key] = ret]

\* ConversationHandler._update_state with the callback's return value: END
\* removes the key, None keeps the stage, a stage is stored.  A callback that
\* raised never gets here: the stage is kept.
UpdateState(cv, key, ret) ==
    IF ret = END THEN [cv EXCEPT ![key] = NoConversation]
    ELSE IF ret \in {ReturnsNone, Raised} THEN cv
    ELSE [cv EXCEPT ![key] = ret]

(***************************************************************************)
(* Application.process_update over the handlers main() registers, all in    *)
(* group 0: the first handler whose check_update matches handles the update *)
(* and no other does.  bot.py:209-216                                       *)
(***************************************************************************)
Dispatch(state, upd) ==
    IF MatchesCommand(upd, S_start) THEN "start_command"
    ELSE IF MatchesCommand(upd, S_help) THEN "help_command"
    ELSE IF ConvCheckUpdate(state, upd) # NoHandler THEN ConvCheckUpdate(state, upd)
    ELSE IF MatchesTextNotCommand(upd) THEN "handle_group_message"
    ELSE NoHandler

\* the callbacks that run inside the conversation handler: their return
\* value goes to _update_state; the return value of any other is dropped
InConversation(name) ==
    name \in {"support_start_dm", "language_received", "issue_selected",
              "address_received", "cancel"}

(***************************************************************************)
(* Inputs.                                                                  *)
(***************************************************************************)
T_hello == <<"h","e","l","l","o">>
T_yes == <<"y","e","s">>
T_YES == <<" ","Y","E","S">>
T_francais == <<"f","r","a","n","c","a","i","s">>
T_Staking == <<"S","t","a","k","i","n","g">>
T_Swapping == <<"S","w","a","p","p","i","n","g">>
T_SiteMalfunction == <<"S","i","t","e"," ","m","a","l","f","u","n","c","t","i","o","n">>
T_Other == <<"O","t","h","e","r">>
T_banana == <<"b","a","n","a","n","a">>
T_notanaddress == <<"n","o","t","a","n","a","d","d","r","e","s","s">>
T_start == <<"/","s","t","a","r","t">>
T_help == <<"/","h","e","l","p">>
T_cancel == <<"/","c","a","n","c","e","l">>
T_myWALLET == <<"m","y"," ","W","A","L","L","E","T">>
T_helpWallet == <<"h","e","l","p"," ","w","a","l","l","e","t">>
T_gm == <<"g","m">>
CFG_empty == <<>>
CFG_two == <<" ","W","a","l","l","e","t"," ",",",",","h","e","l","p">>

\* values of the TRIGGERS environment variable, bot.py:30
TriggerConfigs == {CFG_empty, CFG_two}

\* texts around the address check: "0x" and then hex digits, of total length
\* MinAddrLen - AddrSlack .. MinAddrLen + AddrSlack; the same without the
\* prefix; the same inside white space
AddrLens == (MinAddrLen - AddrSlack)..(MinAddrLen + AddrSlack)
HexAddr(n) == S_0x \o Rep("a", n - 2)
AddrTexts ==
    {HexAddr(n) : n \in AddrLens}
    \cup {<<"1","x">> \o Rep("a", n - 2) : n \in AddrLens}
    \cup {<<" ">> \o HexAddr(n) \o <<"\n">> : n \in AddrLens}
    \cup {T_notanaddress, S_0x}

\* the address of the scenario: "0x" and 40 hex digits
T_address == S_0x \o Rep("a", MinAddrLen)

EntryTexts == {T_hello, T_myWALLET}
LanguageTexts == {T_yes, T_YES, T_francais}
IssueTexts == {T_Staking, T_Swapping, T_SiteMalfunction, T_Other, T_banana}
GroupTexts == {T_myWALLET, T_helpWallet, T_gm}
CommandTexts == {T_start, T_help, T_cancel}
\* the texts a user may send to the running program
AnyTexts ==
    {T_hello, T_yes, T_Staking, T_notanaddress, T_address, T_myWALLET}
    \cup CommandTexts

FailPoints == 0..MaxFailAt

\* user_data without an "issue" key
Unset == <<"<unset>">>

(***************************************************************************)
(* The scenario of the private flow: the events, in order, that one user    *)
(* with no active conversation sends in the private chat.                   *)
(***************************************************************************)
ScenarioUser == "u1"
ScenarioStep(n, upd) ==
    /\ upd.chat = ScenarioUser /\ upd.user = ScenarioUser
    /\ CASE n = 1 -> upd.kind = "message" /\ upd.has_text /\ upd.text = T_hello
         [] n = 2 -> upd.kind = "message" /\ upd.has_text /\ upd.text = T_yes
         [] n = 3 -> \/ upd.kind = "message" /\ upd.has_text /\ upd.text = T_Staking
                     \/ upd.kind = "callback_query" /\ upd.data = S_staking
         [] n = 4 -> upd.kind = "message" /\ upd.has_text /\ upd.text = T_notanaddress
         [] n = 5 -> upd.kind = "message" /\ upd.has_text /\ upd.text = T_address
         [] OTHER -> FALSE

\* how far the scenario has been played after `upd` is handled: an event of
\* the scenario's user that is not the next one, or a rejected outbound call
\* during it, abandons the scenario; other users' events do not touch it
ScenarioAfter(n, upd, failAt) ==
    IF upd.user # ScenarioUser THEN n
    ELSE IF ScenarioStep(n + 1, upd) /\ failAt = 0
              /\ (n = 0 => conv[<<upd.chat, upd.user>>] = NoConversation)
         THEN n + 1
         ELSE 0

\* what the callback `name`, run on `upd`, and the handler's bookkeeping
\* after it leave behind
Applied(name, upd, failAt) ==
    LET key == <<upd.chat, upd.user>>
        res == RunCallback(name, upd, user_data[upd.user], failAt, TRIGGER_WORDS)
    IN  /\ conv' = IF InConversation(name) THEN UpdateState(conv, key, res.ret)
                   ELSE conv
        /\ user_data' = [user_data EXCEPT ![upd.user] = res.issue]
        /\ last' = [upd |-> upd, handler |-> name, before |-> conv[key],
                    ret |-> res.ret, out |-> res.out, attempts |-> res.attempts]
        /\ scenario' = ScenarioAfter(scenario, upd, failAt)
        /\ UNCHANGED TRIGGER_WORDS

\* handling `upd` with callback `name` in the running application, from the
\* moment process_update picks the handler to the moment it returns
Handled(name, upd, failAt) ==
    /\ Applied(name, upd, failAt)
    /\ UNCHANGED appVars

(***************************************************************************)
(* Start-up, bot.py:28-35 and 202-219: the trigger words are read from the  *)
(* environment, no conversation exists and no user data is recorded.        *)
(***************************************************************************)
Init ==
    /\ TRIGGER_WORDS \in {ParseTriggers(cfg) : cfg \in TriggerConfigs}
    /\ conv = [k \in Keys |-> NoConversation]
    /\ user_data = [u \in Users |-> Unset]
    /\ last = [upd |-> NoUpdate, handler |-> NoHandler, before |-> NoConversation,
               ret |-> ReturnsNone, out |-> <<>>, attempts |-> 0]
    /\ scenario = 0
    /\ TOKEN = S_token
    /\ proc = "polling"
    /\ update_queue = <<>>
    /\ running = {}
    /\ next_id = 1
    /\ completed = 0
    /\ manualMode = [u \in Users |-> FALSE]

(***************************************************************************)
(* The whole program: an inbound update is dispatched by process_update.    *)
(***************************************************************************)
\* a text message (a command or not) of a user, in a chat
ReceiveMessage ==
    \E k \in Keys, t \in AnyTexts, f \in FailPoints :
        LET upd == MessageUpdate(k[1], k[2], FALSE, TRUE, t)
        IN  /\ upd.has_text
            /\ Handled(Dispatch(conv[k], upd), upd, f)

\* a message without text (a photo, a sticker)
ReceiveNonText ==
    \E k \in Keys, f \in FailPoints :
        LET upd == MessageUpdate(k[1], k[2], FALSE, FALSE, <<>>)
        IN  /\ ~upd.has_text
            /\ Handled(Dispatch(conv[k], upd), upd, f)

\* a press on one of the buttons of issues_keyboard
ReceiveCallbackQuery ==
    \E k \in Keys, i \in 1..Len(issues_keyboard), f \in FailPoints :
        LET upd == CallbackUpdate(k[1], k[2], issues_keyboard[i])
        IN  /\ MatchesCallbackQuery(upd)
            /\ Handled(Dispatch(conv[k], upd), upd, f)

Next == ReceiveMessage \/ ReceiveNonText \/ ReceiveCallbackQuery

Spec == Init /\ [][Next]_vars

(***************************************************************************)
(* The callbacks one by one.  Each action is ConversationHandler.handle_update *)
(* (or the plain handler) running one callback of bot.py on an update that  *)
(* its filter accepts, in the stage under which build_conv_handler lists it, *)
(* bot.py:188-197, and then _update_state.  The conversation callbacks are  *)
(* driven for the conversations of HandlerKeys.                             *)
(***************************************************************************)
HandlerKeys == {<<"u1", "u1">>}

\* a command: process_update gives it to the first handler registered by
\* main() that matches it in the conversation's stage, bot.py:209-216
Call_command ==
    \E k \in HandlerKeys, t \in CommandTexts, f \in FailPoints :
        LET upd == MessageUpdate(k[1], k[2], FALSE, TRUE, t)
        IN  /\ IsCommand(upd)
            /\ Handled(Dispatch(conv[k], upd), upd, f)

Call_support_start_dm ==
    \E k \in HandlerKeys, t \in EntryTexts, f \in FailPoints :
        /\ conv[k] = NoConversation
        /\ MatchesTextNotCommand(MessageUpdate(k[1], k[2], FALSE, TRUE, t))
        /\ Handled("support_start_dm", MessageUpdate(k[1], k[2], FALSE, TRUE, t), f)

Call_language_received ==
    \E k \in HandlerKeys, t \in LanguageTexts, f \in FailPoints :
        /\ conv[k] = LANGUAGE
        /\ Handled("language_received", MessageUpdate(k[1], k[2], FALSE, TRUE, t), f)

Call_issue_selected_text ==
    \E k \in HandlerKeys, t \in IssueTexts, f \in FailPoints :
        /\ conv[k] = ISSUE
        /\ Handled("issue_selected", MessageUpdate(k[1], k[2], FALSE, TRUE, t), f)

Call_issue_selected_callback ==
    \E k \in HandlerKeys, i \in 1..Len(issues_keyboard), f \in FailPoints :
        /\ conv[k] = ISSUE
        /\ Handled("issue_selected", CallbackUpdate(k[1], k[2], issues_keyboard[i]), f)

Call_address_received ==
    \E k \in HandlerKeys, t \in AddrTexts, f \in FailPoints :
        /\ conv[k] = ASK_ADDRESS
        /\ Handled("address_received", MessageUpdate(k[1], k[2], FALSE, TRUE, t), f)

\* any message of a group chat: with or without text, of a user or of a bot
Call_handle_group_message ==
    \E u \in Users, bot \in BOOLEAN, t \in GroupTexts \cup {<<>>}, f \in FailPoints :
        LET upd == MessageUpdate(Group, u, bot, t # <<>>, t)
        IN  /\ upd.chat = Group
            /\ Handled("handle_group_message", upd, f)

HandlerNext ==
    \/ Call_command
    \/ Call_support_start_dm
    \/ Call_language_received
    \/ Call_issue_selected_text
    \/ Call_issue_selected_callback
    \/ Call_address_received
    \/ Call_handle_group_message

HandlerSpec == Init /\ [][HandlerNext]_vars

(***************************************************************************)
(* Vocabulary of the properties.                                            *)
(***************************************************************************)
\* the conversation the last update belongs to
LastKey == <<last.upd.chat, last.upd.user>>
\* the platform rejected an outbound call of the last callback
PlatformRejected == last.attempts > Len(last.out)
\* the messages the last update's handling sent
SentMessages == SelectSeq(last.out, IsMessage)
\* the last update is a text message that is no command
LastIsPlainText ==
    last.upd.kind = "message" /\ last.upd.has_text /\ ~IsCommand(last.upd)
\* the labels of the menu as a user types them, compared as issue_selected
\* compares them: stripped and lower-cased
MenuLabels ==
    {lower(T_Swapping), lower(T_Staking), lower(T_SiteMalfunction), lower(T_Other)}

(***************************************************************************)
(* C1: the private flow 'hello', 'yes', 'Staking', 'notanaddress', a valid  *)
(* address, sent in this order by a user with no active conversation, goes  *)
(* through LANGUAGE, ISSUE, ASK_ADDRESS, ASK_ADDRESS (reprompt) and ends    *)
(* with the explorer link and the staking advice and no conversation left.  *)
(***************************************************************************)
C1_ScenarioRunsToTheEnd ==
    LET key == <<ScenarioUser, ScenarioUser>>
    IN  /\ scenario = 1 => conv[key] = LANGUAGE
        /\ scenario = 2 => conv[key] = ISSUE
        /\ scenario = 3 => conv[key] = ASK_ADDRESS
        /\ scenario = 4 =>
               /\ conv[key] = ASK_ADDRESS
               /\ last.out = <<Msg(ScenarioUser, "address_reprompt", <<>>)>>
        /\ scenario = 5 =>
               /\ conv[key] = NoConversation
               /\ last.out = <<Msg(ScenarioUser, "explorer_link", T_address),
                               Msg(ScenarioUser, "advice_staking", <<>>)>>

(***************************************************************************)
(* C2: a text handed to address_received is accepted iff, stripped, it      *)
(* starts with "0x" and has length >= 40; accepted, the conversation ends   *)
(* and the explorer link carries exactly the stripped text; rejected, the   *)
(* conversation stays in ASK_ADDRESS with the reprompt, so that the next    *)
(* text is handed to address_received again.                                *)
(***************************************************************************)
C2_AddressValidation ==
    (last.handler = "address_received" /\ ~PlatformRejected) =>
        LET text == strip(last.upd.text)
            accepted == Len(text) >= 40 /\ text[1] = "0" /\ text[2] = "x"
        IN  IF accepted
            THEN /\ conv[LastKey] = NoConversation
                 /\ Len(last.out) = 2
                 /\ last.out[1] = Msg(last.upd.chat, "explorer_link", text)
            ELSE /\ conv[LastKey] = ASK_ADDRESS
                 /\ last.out = <<Msg(last.upd.chat, "address_reprompt", <<>>)>>

\* an address of exactly 40 characters inside white space was accepted
C2_Witness ==
    /\ last.handler = "address_received"
    /\ last.upd.text = <<" ">> \o HexAddr(MinAddrLen) \o <<"\n">>
    /\ last.ret = END
    /\ conv[LastKey] = NoConversation

(***************************************************************************)
(* C3: in ISSUE a selection from the menu, as a button callback or as typed *)
(* text, records the issue; swapping or staking then moves to ASK_ADDRESS   *)
(* with the public-address prompt and the private-key warning; site         *)
(* malfunction or other sends the troubleshooting text and ends the         *)
(* conversation.                                                            *)
(***************************************************************************)
C3_SelectionTransitions ==
    LET data == SelectionData(last.upd)
        chosen == IF last.upd.kind = "callback_query"
                  THEN \E i \in 1..Len(issues_keyboard) : issues_keyboard[i] = data
                  ELSE data \in MenuLabels
    IN  (last.handler = "issue_selected" /\ chosen /\ ~PlatformRejected) =>
            /\ user_data[last.upd.user] = data
            /\ IF data \in {S_swapping, S_staking}
               THEN /\ conv[LastKey] = ASK_ADDRESS
                    /\ SentMessages =
                         <<Msg(last.upd.chat, "address_prompt_with_key_warning", <<>>)>>
               ELSE /\ conv[LastKey] = NoConversation
                    /\ SentMessages =
                         <<Msg(last.upd.chat, "generic_troubleshooting", data)>>

(***************************************************************************)
(* C4: a text that is no valid answer never ends the conversation: in ISSUE *)
(* a text that is none of the menu labels, in ASK_ADDRESS a text that fails *)
(* the address check, leaves the stage as it was.  (In LANGUAGE every text  *)
(* is an answer.)                                                           *)
(***************************************************************************)
C4_InvalidInputKeepsStage ==
    /\ (/\ last.handler = "issue_selected" /\ last.upd.kind = "message"
        /\ SelectionData(last.upd) \notin MenuLabels)
           => /\ conv[LastKey] = ISSUE
              /\ ~PlatformRejected => SentMessages # <<>>
    /\ (/\ last.handler = "address_received"
        /\ ~ValidAddress(strip(last.upd.text)))
           => /\ conv[LastKey] = ASK_ADDRESS
              /\ ~PlatformRejected => SentMessages # <<>>
    /\ last.handler = "language_received" => conv[LastKey] # NoConversation

(***************************************************************************)
(* C5: /cancel, in whatever stage, leaves no conversation and sends the     *)
(* closing message.                                                         *)
(***************************************************************************)
C5_CancelAlwaysCloses ==
    (MatchesCommand(last.upd, S_cancel) /\ ~PlatformRejected) =>
        /\ conv[LastKey] = NoConversation
        /\ last.out = <<Msg(last.upd.chat, "session_closed", <<>>)>>

(***************************************************************************)
(* C6: every text message that is no command and every button selection is *)
(* answered with at least one message.                                      *)
(***************************************************************************)
C6_NoInputDropped ==
    ((LastIsPlainText \/ last.upd.kind = "callback_query") /\ ~PlatformRejected)
        => SentMessages # <<>>

(***************************************************************************)
(* C7: a text that is no command, posted in a group by a user who is no bot *)
(* and containing a trigger word, is handled by handle_group_message, which *)
(* attempts one private message to the user.                                *)
(***************************************************************************)
C7_GroupTriggerReachesScanner ==
    (/\ LastIsPlainText /\ last.upd.chat = Group /\ ~last.upd.is_bot
     /\ \E i \in 1..Len(TRIGGER_WORDS) : contains(TRIGGER_WORDS[i], lower(last.upd.text)))
        => /\ last.handler = "handle_group_message"
           /\ last.attempts = 1

(***************************************************************************)
(* C8: handle_group_message attempts a private message iff the message has  *)
(* text, its sender is no bot and the lower-cased text contains a trigger   *)
(* word; it attempts exactly one, however many words match, and none when   *)
(* no word matches or no word is configured; it changes no conversation and *)
(* no recorded issue.                                                       *)
(***************************************************************************)
C8_TriggerMatching ==
    [][last'.handler = "handle_group_message" =>
          LET upd == last'.upd
              matching == {i \in 1..Len(TRIGGER_WORDS) :
                              contains(TRIGGER_WORDS[i], lower(upd.text))}
              due == upd.has_text /\ ~upd.is_bot /\ matching # {}
          IN  /\ last'.attempts = IF due THEN 1 ELSE 0
              /\ \A i \in 1..Len(last'.out) :
                     last'.out[i] = Msg(upd.user, "private_invitation", <<>>)
              /\ conv' = conv
              /\ user_data' = user_data]_vars

\* a text in capitals matched a trigger word configured in mixed case, and
\* a text with two trigger words was answered once
C8_Witness ==
    /\ last.handler = "handle_group_message"
    /\ last.upd.text = T_myWALLET
    /\ TRIGGER_WORDS = <<S_wallet, S_help>>
    /\ last.attempts = 1
    /\ last.out = <<Msg(last.upd.user, "private_invitation", <<>>)>>

(***************************************************************************)
(* C9: when the platform rejects the private message of                    *)
(* handle_group_message, the callback still returns normally, the send was  *)
(* attempted once, and no conversation stage and no recorded issue changed. *)
(***************************************************************************)
C9_RejectedDeliveryIsHarmless ==
    [][(last'.handler = "handle_group_message" /\ last'.attempts > Len(last'.out)) =>
          /\ last'.ret = ReturnsNone
          /\ last'.attempts = 1
          /\ last'.out = <<>>
          /\ conv' = conv
          /\ user_data' = user_data]_vars

\* the private message for a text with two trigger words was rejected while
\* a conversation was waiting for an address
C9_Witness ==
    /\ last.handler = "handle_group_message"
    /\ last.upd.text = T_helpWallet
    /\ last.attempts = 1 /\ last.out = <<>>
    /\ last.ret = ReturnsNone
    /\ \E k \in Keys : conv[k] = ASK_ADDRESS /\ user_data[k[2]] = S_staking

(***************************************************************************)
(* C10: /start and /help are answered by start_command and help_command in  *)
(* every stage, and leave every conversation stage and every recorded issue *)
(* as they were.                                                            *)
(***************************************************************************)
C10_StartAndHelpChangeNothing ==
    [][(MatchesCommand(last'.upd, S_start) \/ MatchesCommand(last'.upd, S_help)) =>
          /\ last'.handler =
                 IF MatchesCommand(last'.upd, S_start) THEN "start_command"
                 ELSE "help_command"
          /\ conv' = conv
          /\ user_data' = user_data]_vars

\* /start was answered while the conversation was waiting for an address
C10_Witness ==
    /\ last.handler = "start_command"
    /\ last.before = ASK_ADDRESS
    /\ conv[LastKey] = ASK_ADDRESS
    /\ user_data[last.upd.user] = S_swapping
    /\ last.out = <<Msg(last.upd.chat, "welcome", <<>>)>>

(***************************************************************************)
(* C11: one session per user: a user never holds conversations in two chats *)
(* at once, so that the user has one stage whatever chat an event comes     *)
(* from.                                                                    *)
(***************************************************************************)
C11_OneSessionPerUser ==
    \A u \in Users :
        Cardinality({k \in Keys : k[2] = u /\ conv[k] # NoConversation}) <= 1

(***************************************************************************)
(* C18: an event whose callback fails part-way leaves the conversation's    *)
(* stage and the recorded issue as they were before the event.              *)
(***************************************************************************)
C18_FailedEventChangesNothing ==
    [][last'.ret = Raised => (conv' = conv /\ user_data' = user_data)]_vars

(***************************************************************************)
(* The updates' way through the application, bot.py:202-219.  run_polling   *)
(* puts every update it fetches on Application.update_queue with the        *)
(* update_id the platform gave it; the application takes the updates off    *)
(* the queue in that order and calls process_update on each.  The handler   *)
(* is picked (check_update reads the conversation's stage) when             *)
(* process_update begins; the callback then runs, suspended at every        *)
(* outbound call it awaits; the conversation's stage is written when the    *)
(* callback has returned.                                                   *)
(***************************************************************************)
\* number of updates that arrive in a run of QueueSpec
MaxUpdates == 3

QueueKeys == {<<"u1", "u1">>, <<"u2", "u2">>}

QueueTexts == {T_hello, T_cancel, T_start}

\* the application built with concurrent_updates set: the next update is
\* taken off the queue while earlier ones are still being processed
CanStart_Concurrent(tasks) == TRUE

\* bot.py:203 builds the application without concurrent_updates and every
\* handler of bot.py:209-216 blocks: the next update is taken off the queue
\* when the process_update call before it has returned
CanStart(tasks) == tasks = {}

\* run_polling fetched an update
FetchUpdate ==
    \E k \in QueueKeys, t \in QueueTexts :
        /\ proc = "polling"
        /\ next_id <= MaxUpdates
        /\ update_queue' = Append(update_queue,
               [id |-> next_id, upd |-> MessageUpdate(k[1], k[2], FALSE, TRUE, t)])
        /\ next_id' = next_id + 1
        /\ UNCHANGED <<TRIGGER_WORDS, conv, user_data, last, scenario,
                       TOKEN, proc, running, completed, manualMode>>

\* process_update begins on the update at the head of the queue
BeginProcessUpdate ==
    /\ update_queue # <<>>
    /\ CanStart(running)
    /\ LET item == Head(update_queue)
           key == <<item.upd.chat, item.upd.user>>
       IN  running' = running \cup
               {[id |-> item.id, upd |-> item.upd, before |-> conv[key],
                 handler |-> Dispatch(conv[key], item.upd)]}
    /\ update_queue' = Tail(update_queue)
    /\ UNCHANGED <<TRIGGER_WORDS, conv, user_data, last, scenario,
                   TOKEN, proc, next_id, completed, manualMode>>

\* the callback of a process_update call returns (or raises) and the
\* conversation handler writes the stage
EndProcessUpdate ==
    \E t \in running, f \in FailPoints :
        /\ Applied(t.handler, t.upd, f)
        /\ running' = running \ {t}
        /\ completed' = t.id
        /\ UNCHANGED <<TOKEN, proc, update_queue, next_id, manualMode>>

QueueNext == FetchUpdate \/ BeginProcessUpdate \/ EndProcessUpdate

QueueSpec == Init /\ [][QueueNext]_vars

(***************************************************************************)
(* C12: updates are handled in arrival order and one at a time: the update  *)
(* being processed is the one that arrived next after the update completed  *)
(* last, and the stage from which its handler was chosen is still the       *)
(* stage of its conversation, so the handler's stage update is applied to   *)
(* the stage left by the update before it.                                  *)
(***************************************************************************)
C12_OneAtATimeInArrivalOrder ==
    \A t \in running :
        /\ t.id = completed + 1
        /\ t.before = conv[<<t.upd.chat, t.upd.user>>]
        /\ \A i \in 1..Len(update_queue) : update_queue[i].id = t.id + i

\* a user's first message was answered by the entry callback; the user's
\* /cancel after it is being processed from the stage the first one
\* produced, while a third update waits on the queue
C12_Witness ==
    \E t \in running :
        /\ t.id = 2 /\ completed = 1
        /\ last.upd.user = t.upd.user /\ last.handler = "support_start_dm"
        /\ last.ret = LANGUAGE
        /\ t.before = LANGUAGE /\ t.handler = "cancel"
        /\ update_queue # <<>>

(***************************************************************************)
(* Every stage of the conversation handler's table, and process_update in   *)
(* it.  The callbacks of the stages LANGUAGE, ISSUE and ASK_ADDRESS are     *)
(* applied as in HandlerSpec, so that every stage of bot.py:189-196 exists; *)
(* in whatever stage that leaves the conversation, a text, a command or a   *)
(* button press is dispatched by process_update as in Spec.                 *)
(***************************************************************************)
StageTexts == {T_hello, T_Staking, T_address}

\* a text that is not a command arrives and process_update dispatches it
Deliver_text ==
    \E k \in HandlerKeys, t \in StageTexts, f \in FailPoints :
        LET upd == MessageUpdate(k[1], k[2], FALSE, TRUE, t)
        IN  /\ MatchesTextNotCommand(upd)
            /\ Handled(Dispatch(conv[k], upd), upd, f)

\* a button press arrives and process_update dispatches it
Deliver_callback ==
    \E k \in HandlerKeys, i \in 1..Len(issues_keyboard), f \in FailPoints :
        LET upd == CallbackUpdate(k[1], k[2], issues_keyboard[i])
        IN  /\ MatchesCallbackQuery(upd)
            /\ Handled(Dispatch(conv[k], upd), upd, f)

StageNext ==
    \/ Call_language_received
    \/ Call_issue_selected_text
    \/ Call_address_received
    \/ Call_command
    \/ Deliver_text
    \/ Deliver_callback

StageSpec == Init /\ [][StageNext]_vars

\* bot.py:38  LANGUAGE, ISSUE, ASK_ADDRESS = range(3)
StageRank(s) ==
    CASE s = LANGUAGE -> 0
      [] s = ISSUE -> 1
      [] s = ASK_ADDRESS -> 2

(***************************************************************************)
(* C13: the stage of a conversation never regresses: an event handled in a  *)
(* conversation that goes on after it leaves the stage where it was or      *)
(* further along LANGUAGE < ISSUE < ASK_ADDRESS; in particular a text in    *)
(* ISSUE or ASK_ADDRESS never brings the conversation back to LANGUAGE.     *)
(***************************************************************************)
C13_StageNeverRegresses ==
    [][\A k \in Keys :
          (conv[k] # NoConversation /\ conv'[k] # NoConversation)
              => StageRank(conv'[k]) >= StageRank(conv[k])]_vars

(***************************************************************************)
(* C14: out of a conversation that has ended, a command or a button press   *)
(* starts nothing; a text that is not a command is handled by the entry     *)
(* callback, which, unless the platform rejects the send, asks the language *)
(* question and puts the conversation in LANGUAGE.                          *)
(***************************************************************************)
C14_TerminalLeftOnlyByRestart ==
    (last.upd.kind # "none" /\ last.before = NoConversation) =>
        /\ (IsCommand(last.upd) \/ MatchesCallbackQuery(last.upd))
               => conv[LastKey] = NoConversation
        /\ MatchesTextNotCommand(last.upd) =>
               /\ last.handler = "support_start_dm"
               /\ ~PlatformRejected =>
                      /\ conv[LastKey] = LANGUAGE
                      /\ SentMessages = <<Msg(last.upd.chat, "language_question", <<>>)>>

\* a conversation went as far as the selection of an issue and has ended;
\* the user's next text has restarted it
C14_Witness ==
    /\ user_data[last.upd.user] \in {S_swapping, S_staking, S_site, S_other}
    /\ last.before = NoConversation
    /\ MatchesTextNotCommand(last.upd)
    /\ last.handler = "support_start_dm"
    /\ conv[LastKey] = LANGUAGE

(***************************************************************************)
(* Start-up with any environment, bot.py:28-35.  The module reads           *)
(* TELEGRAM_TOKEN when it is loaded and raises SystemExit when the value is *)
(* falsy; only then are the callbacks defined, and main() builds the        *)
(* application, adds the handlers and starts polling, bot.py:202-219.       *)
(***************************************************************************)
\* os.environ.get of a variable that is not set
EnvNone == <<"<None>">>

\* TELEGRAM_TOKEN not set, set to the empty string, set to a token
TokenValues == {EnvNone, <<>>, S_token}

\* a test `if TOKEN is None`: the empty string passes
TokenMissing_NoneOnly(v) == v = EnvNone

\* bot.py:33  `not TOKEN`
TokenMissing(v) == v = EnvNone \/ v = <<>>

StartupInit ==
    /\ TRIGGER_WORDS \in {ParseTriggers(cfg) : cfg \in TriggerConfigs}
    /\ conv = [k \in Keys |-> NoConversation]
    /\ user_data = [u \in Users |-> Unset]
    /\ last = [upd |-> NoUpdate, handler |-> NoHandler, before |-> NoConversation,
               ret |-> ReturnsNone, out |-> <<>>, attempts |-> 0]
    /\ scenario = 0
    /\ TOKEN \in TokenValues
    /\ proc = "starting"
    /\ update_queue = <<>>
    /\ running = {}
    /\ next_id = 1
    /\ completed = 0
    /\ manualMode = [u \in Users |-> FALSE]

\* bot.py:33-35 and 202-219: exit without a token, else run the application
LoadAndRun ==
    /\ proc = "starting"
    /\ proc' = IF TokenMissing(TOKEN) THEN "exited" ELSE "polling"
    /\ UNCHANGED <<TRIGGER_WORDS, conv, user_data, last, scenario,
                   TOKEN, update_queue, running, next_id, completed, manualMode>>

StartupNext == LoadAndRun \/ FetchUpdate \/ BeginProcessUpdate \/ EndProcessUpdate

StartupSpec == StartupInit /\ [][StartupNext]_vars

(***************************************************************************)
(* C15: without a token (not set, or empty) the process stops at start-up:  *)
(* it never polls, no update is fetched or handled, no conversation is      *)
(* started and nothing is sent.                                             *)
(***************************************************************************)
C15_NoTokenNoRun ==
    (TOKEN = EnvNone \/ TOKEN = <<>>) =>
        /\ proc # "polling"
        /\ update_queue = <<>> /\ running = {} /\ next_id = 1 /\ completed = 0
        /\ last.upd = NoUpdate /\ last.out = <<>> /\ last.attempts = 0
        /\ \A k \in Keys : conv[k] = NoConversation

\* the process was started with an empty token and has exited
C15_Witness == TOKEN = <<>> /\ proc = "exited"

(***************************************************************************)
(* Manual mode.  bot.py has no relay; the part below is written from the    *)
(* specification of the RelayBridge and of the Dispatcher: activate sets    *)
(* manualMode for a user and notifies the operator, the dispatcher gives    *)
(* the user's messages to relayFromUser while manualMode is set and to the  *)
(* conversation handler otherwise, and the operator's endmanual command     *)
(* calls deactivate.  The conversation handler is the one of bot.py.        *)
(***************************************************************************)
Operator == "op"

T_manual == <<"M","a","n","u","a","l"," ","s","u","p","p","o","r","t">>
T_endmanual == <<"/","e","n","d","m","a","n","u","a","l">>

RelayTexts == StageTexts \cup {T_cancel}

\* a dispatcher that never asks the relay
isActive_Never(mode, u) == FALSE

\* RelayBridge.isActive(userId)
isActive(mode, u) == mode[u]

\* what a relay operation on `upd` leaves behind: the conversation handler is
\* not involved
Relayed(name, upd, calls, failAt) ==
    LET res == Outcome(calls, failAt, ReturnsNone, Unset)
    IN  /\ last' = [upd |-> upd, handler |-> name,
                    before |-> IF <<upd.chat, upd.user>> \in Keys
                               THEN conv[<<upd.chat, upd.user>>] ELSE NoConversation,
                    ret |-> res.ret, out |-> res.out, attempts |-> res.attempts]
        /\ UNCHANGED <<TRIGGER_WORDS, conv, user_data, scenario,
                       TOKEN, proc, update_queue, running, next_id, completed>>

\* the user asks for manual support: RelayBridge.activate
Relay_activate ==
    \E k \in HandlerKeys, f \in FailPoints :
        /\ ~isActive(manualMode, k[2])
        /\ manualMode' = [manualMode EXCEPT ![k[2]] = TRUE]
        /\ Relayed("activate", MessageUpdate(k[1], k[2], FALSE, TRUE, T_manual),
                   <<Msg(Operator, "manual_requested", <<k[2]>>)>>, f)

\* a message of a user in manual mode: RelayBridge.relayFromUser; a failed
\* translation forwards the text as it is
Relay_relayFromUser ==
    \E k \in HandlerKeys, t \in RelayTexts, translated \in BOOLEAN, f \in FailPoints :
        /\ isActive(manualMode, k[2])
        /\ UNCHANGED manualMode
        /\ Relayed("relayFromUser", MessageUpdate(k[1], k[2], FALSE, TRUE, t),
                   <<Msg(Operator, IF translated THEN "relay_translated"
                                   ELSE "relay_untranslated", <<k[2]>> \o t)>>, f)

\* the operator's endmanual command: RelayBridge.deactivate
Relay_deactivate ==
    \E k \in HandlerKeys, f \in FailPoints :
        /\ isActive(manualMode, k[2])
        /\ manualMode' = [manualMode EXCEPT ![k[2]] = FALSE]
        /\ Relayed("deactivate", MessageUpdate(Operator, Operator, FALSE, TRUE, T_endmanual),
                   <<Msg(Operator, "manual_ended", <<k[2]>>)>>, f)

\* a message of a user who is not in manual mode goes to the handlers of bot.py
Engine_process_update ==
    \E k \in HandlerKeys, t \in RelayTexts, f \in FailPoints :
        /\ ~isActive(manualMode, k[2])
        /\ Handled(Dispatch(conv[k], MessageUpdate(k[1], k[2], FALSE, TRUE, t)),
                   MessageUpdate(k[1], k[2], FALSE, TRUE, t), f)

Engine_language_received ==
    \E k \in HandlerKeys, t \in LanguageTexts, f \in FailPoints :
        /\ ~isActive(manualMode, k[2])
        /\ conv[k] = LANGUAGE
        /\ Handled("language_received", MessageUpdate(k[1], k[2], FALSE, TRUE, t), f)

Engine_issue_selected ==
    \E k \in HandlerKeys, t \in IssueTexts, f \in FailPoints :
        /\ ~isActive(manualMode, k[2])
        /\ conv[k] = ISSUE
        /\ Handled("issue_selected", MessageUpdate(k[1], k[2], FALSE, TRUE, t), f)

RelayNext ==
    \/ Relay_activate
    \/ Relay_relayFromUser
    \/ Relay_deactivate
    \/ Engine_process_update
    \/ Engine_language_received
    \/ Engine_issue_selected

RelaySpec == Init /\ [][RelayNext]_vars

(***************************************************************************)
(* C16: while manualMode is set for a user, no step changes the stage of a  *)
(* conversation of that user, and every message of that user that is       *)
(* handled is handled by relayFromUser; this lasts until deactivate.        *)
(***************************************************************************)
C16_ManualModeFreezesStage ==
    [][\A u \in Users :
          manualMode[u] =>
              /\ \A k \in Keys : k[2] = u => conv'[k] = conv[k]
              /\ (last' # last /\ last'.upd.user = u)
                     => last'.handler = "relayFromUser"]_vars

\* a user in the stage ISSUE is in manual mode and a message of that user
\* has been relayed; the stage is still ISSUE
C16_Witness ==
    /\ last.handler = "relayFromUser"
    /\ manualMode[last.upd.user]
    /\ last.before = ISSUE
    /\ conv[LastKey] = ISSUE

(***************************************************************************)
(* Several conversations side by side.  The callbacks are applied as in     *)
(* HandlerSpec, each in the stage under which build_conv_handler lists it,  *)
(* for the conversations of a set K of keys (chat, user): the conversation  *)
(* handler keeps one stage per key, context.user_data is one per user.      *)
(***************************************************************************)
\* one user in the private chat and in the group chat
SameUserKeys == {<<"u1", "u1">>, <<Group, "u1">>}

\* two users, each in the private chat
TwoUserKeys == {<<"u1", "u1">>, <<"u2", "u2">>}

SelectionTexts == {T_Swapping, T_Staking, T_Other}

Table_support_start_dm(K) ==
    \E k \in K, f \in FailPoints :
        /\ conv[k] = NoConversation
        /\ Handled("support_start_dm", MessageUpdate(k[1], k[2], FALSE, TRUE, T_hello), f)

Table_language_received(K) ==
    \E k \in K, f \in FailPoints :
        /\ conv[k] = LANGUAGE
        /\ Handled("language_received", MessageUpdate(k[1], k[2], FALSE, TRUE, T_yes), f)

Table_issue_selected_text(K) ==
    \E k \in K, t \in SelectionTexts, f \in FailPoints :
        /\ conv[k] = ISSUE
        /\ Handled("issue_selected", MessageUpdate(k[1], k[2], FALSE, TRUE, t), f)

Table_issue_selected_callback(K) ==
    \E k \in K, i \in 1..Len(issues_keyboard), f \in FailPoints :
        /\ conv[k] = ISSUE
        /\ Handled("issue_selected", CallbackUpdate(k[1], k[2], issues_keyboard[i]), f)

Table_address_received(K) ==
    \E k \in K, t \in {T_address, T_notanaddress}, f \in FailPoints :
        /\ conv[k] = ASK_ADDRESS
        /\ Handled("address_received", MessageUpdate(k[1], k[2], FALSE, TRUE, t), f)

Table_cancel(K) ==
    \E k \in K, f \in FailPoints :
        /\ IsCommand(MessageUpdate(k[1], k[2], FALSE, TRUE, T_cancel))
        /\ Handled(Dispatch(conv[k], MessageUpdate(k[1], k[2], FALSE, TRUE, T_cancel)),
                   MessageUpdate(k[1], k[2], FALSE, TRUE, T_cancel), f)

SameUserNext ==
    \/ Table_support_start_dm(SameUserKeys)
    \/ Table_language_received(SameUserKeys)
    \/ Table_issue_selected_text(SameUserKeys)
    \/ Table_address_received(SameUserKeys)

SameUserSpec == Init /\ [][SameUserNext]_vars

TwoUserNext ==
    \/ Table_support_start_dm(TwoUserKeys)
    \/ Table_language_received(TwoUserKeys)
    \/ Table_issue_selected_text(TwoUserKeys)
    \/ Table_issue_selected_callback(TwoUserKeys)
    \/ Table_address_received(TwoUserKeys)
    \/ Table_cancel(TwoUserKeys)

TwoUserSpec == Init /\ [][TwoUserNext]_vars

(***************************************************************************)
(* C17: while a conversation waits for an address, the recorded issue of    *)
(* its user is 'swapping' or 'staking', whatever the user does in other     *)
(* chats, so that the advice after a valid address is never the generic one. *)
(***************************************************************************)
C17_AddressStageHasItsIssue ==
    /\ \A k \in Keys :
           conv[k] = ASK_ADDRESS => user_data[k[2]] \in {S_swapping, S_staking}
    /\ (last.handler = "address_received" /\ last.ret = END) =>
           user_data[last.upd.user] \in {S_swapping, S_staking}

(***************************************************************************)
(* C19: an event of a user, handled to the end or failed, leaves the stage  *)
(* of every conversation of any other user, and the recorded issue of any   *)
(* other user, as they were.                                                *)
(***************************************************************************)
C19_UsersAreIsolated ==
    [][\A b \in Users :
          b # last'.upd.user =>
              /\ user_data'[b] = user_data[b]
              /\ \A k \in Keys : k[2] = b => conv'[k] = conv[k]]_vars

\* a button press of one user has failed after it recorded the issue, while
\* another user is in the middle of a conversation with an issue recorded
C19_Witness ==
    /\ last.upd.kind = "callback_query" /\ last.ret = Raised
    /\ \E b \in Users \ {last.upd.user} :
           conv[<<b, b>>] = ASK_ADDRESS /\ user_data[b] = S_swapping /\ user_data[last.upd.user] # Unset

=============================================================================
